---- MODULE Spec2Model ----
(***************************************************************************)
(* ClassroomCoin (src/educoin.py): a hash-linked, proof-of-work mined      *)
(* chain of blocks holding token transfers, with a registry of students    *)
(* gating awards and transfers.                                            *)
(*                                                                         *)
(* Strings that the code only compares (names, notes) are TLA+ strings.    *)
(* A hash string is a sequence of digits, most significant first; the      *)
(* genesis previous_hash "0" is the one-digit sequence <<0>>.  SHA-256 is  *)
(* abstracted by a deterministic mix of the serialised fields, reduced to  *)
(* HashLen digits in base HashBase; every digest is reached by some nonce.  *)
(* One iteration of proof_of_work's loop (nonce += 1; hash = ...) is one   *)
(* step.                                                                   *)
(***************************************************************************)
EXTENDS Integers, Sequences, FiniteSets, TLC

(* ------------------------------ bounds -------------------------------- *)
MaxChain == 3          \* add_block is entered only while len(chain) is below it
MaxAmount == 1         \* amounts offered to transfer: 0..MaxAmount
MaxDifficulty == 1     \* difficulties a ledger is constructed with
HashLen == 2           \* digits of a digest (64 in the code)
HashBase == 2          \* digit alphabet of a digest (16 in the code)

TEACHER == "TEACHER"
Names == {"Alice", "Bob", TEACHER}
InitialStudents == {"Alice"}
Notes == {"hw"}
Amounts == 0..MaxAmount
Times == {1, 2}        \* readings of time.time(), which never runs backwards
Difficulties == 0..MaxDifficulty
Sessions == {1}        \* the app keeps one ledger per browser session
Threads == {1, 2}      \* request threads of a server; a session runs on thread 1

VARIABLES
    chain,       \* SimpleBlockchain.chain
    difficulty,  \* SimpleBlockchain.difficulty
    students,    \* ClassroomCoin.students
    pc,          \* per session: "idle"; "mining" inside add_block; "returned" or
                 \* "raised" once the handler has ended, until the script run ends
    new_block,   \* per session: add_block's candidate, then the block returned
    call,        \* per session: the handler called, its arguments, the chain it found
    result,      \* per session: "ok" or the error raised by the handler that ended
    awards,      \* number of award_coin calls that returned a block
    log,         \* the handler calls that returned a block, oldest first
    mutex        \* whether handlers on different threads exclude one another

vars == <<chain, difficulty, students, pc, new_block, call, result, awards, log,
          mutex>>

(* --------------------------- Transaction ------------------------------ *)
Transaction(sender, recipient, amount, note) ==
    [sender |-> sender, recipient |-> recipient, amount |-> amount, note |-> note]

(* ----------------------------- hashing -------------------------------- *)
HashMod == HashBase ^ HashLen

NameCode(n) ==
    CASE n = "Alice" -> 1
      [] n = "Bob" -> 2
      [] n = TEACHER -> 3
      [] n = "" -> 4
      [] n = "hw" -> 5
      [] OTHER -> 6

\* json.dumps of one Transaction.to_dict(), as a number
TxCode(t) ==
    NameCode(t.sender) + 7 * NameCode(t.recipient) + 11 * (t.amount + MaxAmount + 1)
        + 13 * NameCode(t.note)

RECURSIVE TxStr(_)
TxStr(txs) ==
    IF txs = <<>> THEN 1
    ELSE (3 * TxStr(SubSeq(txs, 1, Len(txs) - 1)) + TxCode(txs[Len(txs)])) % 1000

\* a digit string read as a number; the length keeps "0" apart from "000"
RECURSIVE StrCode(_)
StrCode(s) ==
    IF s = <<>> THEN 0
    ELSE (HashBase * StrCode(SubSeq(s, 1, Len(s) - 1)) + s[Len(s)] + 1) % 1000

RECURSIVE Digits(_, _)
Digits(v, n) ==
    IF n = 0 THEN <<>>
    ELSE Append(Digits(v \div HashBase, n - 1), v % HashBase)

\* hashlib.sha256(...).hexdigest()
HexDigest(v) == Digits(v % HashMod, HashLen)

compute_hash(index, transactions, previous_hash, nonce, timestamp) ==
    HexDigest(5 * index + 3 * TxStr(transactions) + 7 * StrCode(previous_hash)
              + nonce + 11 * timestamp)

BlockHash(b) ==
    compute_hash(b.index, b.transactions, b.previous_hash, b.nonce, b.timestamp)

\* Block.__init__: the fields, then hash = compute_hash()
Block(index, transactions, previous_hash, nonce, timestamp) ==
    [index |-> index, transactions |-> transactions, previous_hash |-> previous_hash,
     nonce |-> nonce, timestamp |-> timestamp,
     hash |-> compute_hash(index, transactions, previous_hash, nonce, timestamp)]

NoBlock ==
    [index |-> 0 - 1, transactions |-> <<>>, previous_hash |-> <<>>, nonce |-> 0,
     timestamp |-> 0, hash |-> <<>>]

(* --------------------------- SimpleBlockchain ------------------------- *)
\* mutant: a genesis block numbered from 1
create_genesis_block_OneBased(ts) == <<Block(1, <<>>, <<0>>, 0, ts)>>

create_genesis_block(ts) == <<Block(0, <<>>, <<0>>, 0, ts)>>

\* mutant: the block before the last one is taken for the last
last_block_Previous(ch) == IF Len(ch) >= 2 THEN ch[Len(ch) - 1] ELSE ch[1]

last_block(ch) == ch[Len(ch)]

\* mutant: the target is one character short
Target_Short(d) == [i \in 1..(d - 1) |-> 0]

\* "0" * difficulty
Target(d) == [i \in 1..d |-> 0]

StartsWith(s, prefix) ==
    /\ Len(prefix) <= Len(s)
    /\ \A i \in 1..Len(prefix) : s[i] = prefix[i]

\* mutant: the nonce moves on and the hash is not recomputed
PowIteration_StaleHash(b) == [b EXCEPT !.nonce = b.nonce + 1]

\* mutant: every other nonce is tried
PowIteration_Skip(b) ==
    LET n == b.nonce + 2
    IN  [b EXCEPT !.nonce = n,
                  !.hash = compute_hash(b.index, b.transactions, b.previous_hash,
                                        n, b.timestamp)]

\* one iteration of proof_of_work's loop body
PowIteration(b) ==
    LET n == b.nonce + 1
    IN  [b EXCEPT !.nonce = n,
                  !.hash = compute_hash(b.index, b.transactions, b.previous_hash,
                                        n, b.timestamp)]

\* mutant: the candidate links to the first block instead of the last
NewBlock_FirstHash(ch, transactions, ts) ==
    Block(Len(ch), transactions, ch[1].hash, 0, ts)

\* mutant: positions are counted from 1
NewBlock_OneBased(ch, transactions, ts) ==
    Block(Len(ch) + 1, transactions, last_block(ch).hash, 0, ts)

\* mutant: the candidate carries its records twice
NewBlock_Doubled(ch, transactions, ts) ==
    Block(Len(ch), transactions \o transactions, last_block(ch).hash, 0, ts)

\* add_block's candidate
NewBlock(ch, transactions, ts) ==
    Block(Len(ch), transactions, last_block(ch).hash, 0, ts)

\* mutant: the mined block takes the place of the last block
ChainAppend_Overwrite(ch, b) == [ch EXCEPT ![Len(ch)] = b]

ChainAppend(ch, b) == Append(ch, b)

RECURSIVE Records(_)
Records(ch) ==
    IF ch = <<>> THEN <<>>
    ELSE Records(SubSeq(ch, 1, Len(ch) - 1)) \o ch[Len(ch)].transactions

\* mutant: a record counts once for an address (elif in place of the second if)
RECURSIVE BalanceOver_Elif(_, _)
BalanceOver_Elif(txs, address) ==
    IF txs = <<>> THEN 0
    ELSE LET t == txs[Len(txs)]
             b == BalanceOver_Elif(SubSeq(txs, 1, Len(txs) - 1), address)
         IN  IF t.recipient = address THEN b + t.amount
             ELSE IF t.sender = address THEN b - t.amount
             ELSE b

RECURSIVE BalanceOver(_, _)
BalanceOver(txs, address) ==
    IF txs = <<>> THEN 0
    ELSE LET t == txs[Len(txs)]
             b == BalanceOver(SubSeq(txs, 1, Len(txs) - 1), address)
             b1 == IF t.recipient = address THEN b + t.amount ELSE b
         IN  IF t.sender = address THEN b1 - t.amount ELSE b1

get_balance(ch, address) == BalanceOver(Records(ch), address)

\* a dict: keys in insertion order, and the value of each key
EmptyDict == [keys |-> <<>>, val |-> [k \in {} |-> 0]]

DictGet(d, k, default) == IF k \in DOMAIN d.val THEN d.val[k] ELSE default

DictSet(d, k, v) ==
    [keys |-> IF k \in DOMAIN d.val THEN d.keys ELSE Append(d.keys, k),
     val |-> [x \in DOMAIN d.val \cup {k} |-> IF x = k THEN v ELSE d.val[x]]]

RECURSIVE BalancesOver(_)
BalancesOver(txs) ==
    IF txs = <<>> THEN EmptyDict
    ELSE LET t == txs[Len(txs)]
             d == BalancesOver(SubSeq(txs, 1, Len(txs) - 1))
             d1 == DictSet(d, t.sender, DictGet(d, t.sender, 0) - t.amount)
         IN  DictSet(d1, t.recipient, DictGet(d1, t.recipient, 0) + t.amount)

\* mutant: the sender is never debited
RECURSIVE BalancesOver_CreditOnly(_)
BalancesOver_CreditOnly(txs) ==
    IF txs = <<>> THEN EmptyDict
    ELSE LET t == txs[Len(txs)]
             d == BalancesOver_CreditOnly(SubSeq(txs, 1, Len(txs) - 1))
         IN  DictSet(d, t.recipient, DictGet(d, t.recipient, 0) + t.amount)

all_balances_CreditOnly(ch) == BalancesOver_CreditOnly(Records(ch))

\* mutant: records that move nothing are passed over
all_balances_SkipsZero(ch) ==
    BalancesOver(SelectSeq(Records(ch), LAMBDA t : t.amount # 0))

all_balances(ch) == BalancesOver(Records(ch))

\* mutant: only the newest block is read
balance_LastBlock(ch, student) == BalanceOver(last_block(ch).transactions, student)

\* ClassroomCoin.balance
balance(ch, student) == get_balance(ch, student)

\* mutant: a key is placed before the keys of equal value
InsertDesc_BeforeEqual(s, k, val) ==
    LET n == Cardinality({i \in 1..Len(s) : val[s[i]] > val[k]})
    IN  SubSeq(s, 1, n) \o <<k>> \o SubSeq(s, n + 1, Len(s))

\* sorted(..., reverse=True) is stable: in a sequence already in descending
\* order the next key goes behind every key whose value is not smaller
InsertDesc(s, k, val) ==
    LET n == Cardinality({i \in 1..Len(s) : val[s[i]] >= val[k]})
    IN  SubSeq(s, 1, n) \o <<k>> \o SubSeq(s, n + 1, Len(s))

\* sorted(items, key=lambda x: x[1], reverse=True), as the keys in their new order
RECURSIVE SortedDesc(_, _)
SortedDesc(keys, val) ==
    IF keys = <<>> THEN <<>>
    ELSE InsertDesc(SortedDesc(SubSeq(keys, 1, Len(keys) - 1), val),
                    keys[Len(keys)], val)

\* ClassroomCoin.leaderboard: the dict built from the sorted pairs
leaderboard(ch) ==
    LET d == all_balances(ch)
    IN  [keys |-> SortedDesc(d.keys, d.val), val |-> d.val]

(* ------------------------------ state --------------------------------- *)
NoCall ==
    [op |-> "none", sender |-> "", recipient |-> "", amount |-> 0, note |-> "",
     chain0 |-> <<>>]

\* a handler's name and arguments, and the chain it found
TheCall(op, sender, recipient, amount, note) ==
    [op |-> op, sender |-> sender, recipient |-> recipient, amount |-> amount,
     note |-> note, chain0 |-> chain]

Init ==
    /\ difficulty \in Difficulties
    /\ \E ts \in Times : chain = create_genesis_block(ts)
    /\ students = InitialStudents
    /\ pc = [s \in Threads |-> "idle"]
    /\ new_block = [s \in Threads |-> NoBlock]
    /\ call = [s \in Threads |-> NoCall]
    /\ result = [s \in Threads |-> "none"]
    /\ awards = 0
    /\ log = <<>>
    /\ mutex = FALSE

(* ---------------------------- operations ------------------------------ *)
\* the raise in award_coin, or "ok"
AwardCheck(studs, student) ==
    IF student \notin studs THEN "UnregisteredParticipant" ELSE "ok"

\* mutant: a sender may not spend the whole balance
TransferCheck_Le(ch, studs, sender, recipient, amount) ==
    IF sender \notin studs \/ recipient \notin studs THEN "UnregisteredParticipant"
    ELSE IF get_balance(ch, sender) <= amount THEN "InsufficientBalance"
    ELSE "ok"

\* mutant: the sender's balance is not looked at
TransferCheck_NoBalance(ch, studs, sender, recipient, amount) ==
    IF sender \notin studs \/ recipient \notin studs THEN "UnregisteredParticipant"
    ELSE "ok"

\* the raises in transfer, in the order the code tests them, or "ok"
TransferCheck(ch, studs, sender, recipient, amount) ==
    IF sender \notin studs \/ recipient \notin studs THEN "UnregisteredParticipant"
    ELSE IF get_balance(ch, sender) < amount THEN "InsufficientBalance"
    ELSE "ok"

\* mutant: sender and recipient exchanged
AwardTransaction_Swapped(student, reason) == Transaction(student, TEACHER, 1, reason)

\* the record award_coin builds
AwardTransaction(student, reason) == Transaction(TEACHER, student, 1, reason)

\* the record transfer builds
TransferTransaction(sender, recipient, amount, note) ==
    Transaction(sender, recipient, amount, note)

\* raise ValueError: the handler ends without having touched the ledger
Raise(p, c, error) ==
    /\ pc' = [pc EXCEPT ![p] = "raised"]
    /\ call' = [call EXCEPT ![p] = c]
    /\ result' = [result EXCEPT ![p] = error]
    /\ UNCHANGED <<chain, difficulty, students, new_block, awards, log, mutex>>

\* add_block up to the candidate's construction; mining follows
EnterAddBlock(p, c, transactions) ==
    /\ Len(chain) < MaxChain
    /\ \E ts \in Times :
          /\ ts >= last_block(chain).timestamp
          /\ new_block' = [new_block EXCEPT ![p] = NewBlock(chain, transactions, ts)]
    /\ pc' = [pc EXCEPT ![p] = "mining"]
    /\ call' = [call EXCEPT ![p] = c]
    /\ UNCHANGED <<chain, difficulty, students, result, awards, log, mutex>>

\* the "Add Student" button, pressed in session p between two handlers
RegisterStudent(p, name) ==
    /\ pc[p] = "idle"
    /\ students' = students \cup {name}
    /\ UNCHANGED <<chain, difficulty, pc, new_block, call, result, awards, log, mutex>>

award_coin(p, student, reason) ==
    /\ pc[p] = "idle"
    /\ LET c == TheCall("award_coin", TEACHER, student, 1, reason)
           outcome == AwardCheck(students, student)
       IN  IF outcome # "ok" THEN Raise(p, c, outcome)
           ELSE EnterAddBlock(p, c, <<AwardTransaction(student, reason)>>)

\* mutant: the block is added before the balance is tested
transfer_AppendsFirst(p, sender, recipient, amount, note) ==
    /\ pc[p] = "idle"
    /\ LET c == TheCall("transfer", sender, recipient, amount, note)
           outcome == TransferCheck(chain, students, sender, recipient, amount)
           tx == TransferTransaction(sender, recipient, amount, note)
       IN  IF outcome = "UnregisteredParticipant" THEN Raise(p, c, outcome)
           ELSE IF outcome = "InsufficientBalance"
           THEN /\ Len(chain) < MaxChain
                /\ \E ts \in Times :
                      /\ ts >= last_block(chain).timestamp
                      /\ chain' = ChainAppend(chain, NewBlock(chain, <<tx>>, ts))
                /\ pc' = [pc EXCEPT ![p] = "raised"]
                /\ call' = [call EXCEPT ![p] = c]
                /\ result' = [result EXCEPT ![p] = outcome]
                /\ UNCHANGED <<difficulty, students, new_block, awards, log, mutex>>
           ELSE EnterAddBlock(p, c, <<tx>>)

transfer(p, sender, recipient, amount, note) ==
    /\ pc[p] = "idle"
    /\ LET c == TheCall("transfer", sender, recipient, amount, note)
           outcome == TransferCheck(chain, students, sender, recipient, amount)
       IN  IF outcome # "ok" THEN Raise(p, c, outcome)
           ELSE EnterAddBlock(p, c,
                              <<TransferTransaction(sender, recipient, amount, note)>>)

\* proof_of_work: the loop test fails, one more nonce
PowStep(p) ==
    /\ pc[p] = "mining"
    /\ ~StartsWith(new_block[p].hash, Target(difficulty))
    /\ new_block' = [new_block EXCEPT ![p] = PowIteration(new_block[p])]
    /\ UNCHANGED <<chain, difficulty, students, pc, call, result, awards, log, mutex>>

\* mutant: the candidate is appended while the search is still running
AppendMined_Unmined(p) ==
    /\ pc[p] = "mining"
    /\ chain' = ChainAppend(chain, new_block[p])
    /\ pc' = [pc EXCEPT ![p] = "returned"]
    /\ result' = [result EXCEPT ![p] = "ok"]
    /\ awards' = IF call[p].op = "award_coin" THEN awards + 1 ELSE awards
    /\ log' = Append(log, [op |-> call[p].op, sender |-> call[p].sender,
                            recipient |-> call[p].recipient,
                            amount |-> call[p].amount])
    /\ UNCHANGED <<difficulty, students, new_block, call, mutex>>

\* proof_of_work returns; add_block appends the block and the handler returns it
AppendMined(p) ==
    /\ pc[p] = "mining"
    /\ StartsWith(new_block[p].hash, Target(difficulty))
    /\ chain' = ChainAppend(chain, new_block[p])
    /\ pc' = [pc EXCEPT ![p] = "returned"]
    /\ result' = [result EXCEPT ![p] = "ok"]
    /\ awards' = IF call[p].op = "award_coin" THEN awards + 1 ELSE awards
    /\ log' = Append(log, [op |-> call[p].op, sender |-> call[p].sender,
                            recipient |-> call[p].recipient,
                            amount |-> call[p].amount])
    /\ UNCHANGED <<difficulty, students, new_block, call, mutex>>

\* the script run that called the handler ends: the block or the error has
\* been shown, and the session waits for the next button
EndOfRun(p) ==
    /\ pc[p] \in {"returned", "raised"}
    /\ pc' = [pc EXCEPT ![p] = "idle"]
    /\ new_block' = [new_block EXCEPT ![p] = NoBlock]
    /\ call' = [call EXCEPT ![p] = NoCall]
    /\ result' = [result EXCEPT ![p] = "none"]
    /\ UNCHANGED <<chain, difficulty, students, awards, log, mutex>>

Register == \E p \in Sessions, name \in Names : RegisterStudent(p, name)

Award == \E p \in Sessions, student \in Names, reason \in Notes :
            award_coin(p, student, reason)

DoTransfer ==
    \E p \in Sessions, sender \in Names, recipient \in Names, amount \in Amounts,
       note \in Notes :
        transfer(p, sender, recipient, amount, note)

Mine == \E p \in Sessions : PowStep(p)

Finish == \E p \in Sessions : AppendMined(p)

Rerun == \E p \in Sessions : EndOfRun(p)

Next == Register \/ Award \/ DoTransfer \/ Mine \/ Finish \/ Rerun

Spec == Init /\ [][Next]_vars

TypeOK ==
    /\ difficulty \in Difficulties
    /\ students \subseteq Names
    /\ Len(chain) \in 1..MaxChain
    /\ \A p \in Sessions :
          /\ pc[p] \in {"idle", "mining", "returned", "raised"}
          /\ result[p] \in {"none", "ok", "UnregisteredParticipant", "InsufficientBalance"}

(* ------------------- one ledger shared by two threads ---------------- *)
\* A server that hands the same ClassroomCoin to every request thread.  The
\* handlers are the ones above; the threads interleave at their steps: the
\* checks and the candidate's construction, each proof_of_work iteration, the
\* append.  With the mutex a thread enters add_block only while no other
\* thread is inside it.
LockFree(p) == \A q \in Threads \ {p} : pc[q] # "mining"

Admit(p, outcome) == (mutex /\ outcome = "ok") => LockFree(p)

InitShared ==
    /\ difficulty \in Difficulties
    /\ \E ts \in Times : chain = create_genesis_block(ts)
    /\ students = InitialStudents
    /\ pc = [s \in Threads |-> "idle"]
    /\ new_block = [s \in Threads |-> NoBlock]
    /\ call = [s \in Threads |-> NoCall]
    /\ result = [s \in Threads |-> "none"]
    /\ awards = 0
    /\ log = <<>>
    /\ mutex \in BOOLEAN

AwardShared ==
    \E p \in Threads, student \in Names, reason \in Notes :
        /\ Admit(p, AwardCheck(students, student))
        /\ award_coin(p, student, reason)

MineShared == \E p \in Threads : PowStep(p)

FinishShared == \E p \in Threads : AppendMined(p)

RerunShared == \E p \in Threads : EndOfRun(p)

NextShared == AwardShared \/ MineShared \/ FinishShared \/ RerunShared

SpecShared == InitShared /\ [][NextShared]_vars

(* --------------------- the ledger without a registry ------------------ *)
\* SimpleBlockchain(difficulty=0) on its own: add_block is given any one
\* record, whoever its sender and recipient are and whatever the sender holds,
\* and the queries are read over the chains that result.
add_block(p, sender, recipient, amount, note) ==
    /\ pc[p] = "idle"
    /\ EnterAddBlock(p, TheCall("add_block", sender, recipient, amount, note),
                     <<Transaction(sender, recipient, amount, note)>>)

AddBlock ==
    \E p \in Sessions, sender \in Names, recipient \in Names, amount \in Amounts,
       note \in Notes :
        add_block(p, sender, recipient, amount, note)

InitLedger == Init /\ difficulty = 0

NextLedger == AddBlock \/ Finish \/ Rerun

SpecLedger == InitLedger /\ [][NextLedger]_vars

(* ------------------- proof_of_work at any difficulty ----------------- *)
\* The ledger is constructed with any difficulty up to one more than a digest
\* has digits, where no hash can begin with the target.  A digest of the model
\* depends on the nonce modulo HashMod, so a search that has tried HashMod
\* nonces in vain has met every digest it will ever meet; it is followed no
\* further.  The handler runs to its end without interruption.
PowDifficulties == 0..(HashLen + 1)

MaxNonce == HashMod

InitPow ==
    /\ difficulty \in PowDifficulties
    /\ \E ts \in Times : chain = create_genesis_block(ts)
    /\ students = InitialStudents
    /\ pc = [s \in Threads |-> "idle"]
    /\ new_block = [s \in Threads |-> NoBlock]
    /\ call = [s \in Threads |-> NoCall]
    /\ result = [s \in Threads |-> "none"]
    /\ awards = 0
    /\ log = <<>>
    /\ mutex = FALSE

MinePow == \E p \in Sessions : new_block[p].nonce < MaxNonce /\ PowStep(p)

NextPow == Register \/ Award \/ MinePow \/ Finish \/ Rerun

SpecPow == InitPow /\ [][NextPow]_vars /\ WF_vars(MinePow) /\ WF_vars(Finish)

(* ------------------------------ properties ---------------------------- *)
Errors == {"UnregisteredParticipant", "InsufficientBalance", "InvalidAmount"}

IsPrefix(s, t) ==
    /\ Len(s) <= Len(t)
    /\ \A i \in 1..Len(s) : t[i] = s[i]

\* C1: every non-genesis block's previous_hash is the stored hash of the block
\* one position before it in the chain.
C1_Linkage ==
    \A i \in 2..Len(chain) : chain[i].previous_hash = chain[i - 1].hash

C1_Witness ==
    /\ Len(chain) >= 3
    /\ chain[3].previous_hash = chain[2].hash
    /\ chain[2].hash # chain[1].hash

\* C2: the stored hash of every block of the chain, and of a candidate block
\* between iterations of proof_of_work, is compute_hash of its stored fields.
C2_HashOfFields ==
    /\ \A i \in 1..Len(chain) : chain[i].hash = BlockHash(chain[i])
    /\ \A p \in Sessions : pc[p] = "mining" => new_block[p].hash = BlockHash(new_block[p])

C2_Witness ==
    /\ \E p \in Sessions : pc[p] = "mining" /\ new_block[p].nonce >= 1
    /\ \E i \in 2..Len(chain) : chain[i].nonce >= 1 /\ chain[i].hash = BlockHash(chain[i])

\* C3: when award_coin or transfer has raised, the chain is the chain the call
\* found, block for block, and no candidate block has been built.
C3_FailureKeepsChain ==
    \A p \in Sessions :
        pc[p] = "raised"
            => (result[p] \in Errors /\ chain = call[p].chain0 /\ new_block[p] = NoBlock)

C3_Witness ==
    /\ Len(chain) >= 2
    /\ \E p \in Sessions : pc[p] = "raised" /\ result[p] = "InsufficientBalance"

\* the ways a call in progress or just ended can stand: it raised `error`
\* and the chain is as found; or it is mining, or has returned after
\* appending, one block whose only record is `record`
HasRaised(p, error) ==
    /\ pc[p] = "raised"
    /\ result[p] = error
    /\ chain = call[p].chain0

AppendsOne(p, record) ==
    \/ /\ pc[p] = "mining"
       /\ chain = call[p].chain0
       /\ new_block[p].transactions = <<record>>
    \/ /\ pc[p] = "returned"
       /\ result[p] = "ok"
       /\ Len(chain) = Len(call[p].chain0) + 1
       /\ IsPrefix(call[p].chain0, chain)
       /\ last_block(chain).transactions = <<record>>

\* C4: transfer raises UnregisteredParticipant when sender or recipient is not
\* a student, else InsufficientBalance when the sender's balance is below the
\* amount, and else appends exactly one block whose only record is
\* (sender, recipient, amount, note).
C4_TransferContract ==
    \A p \in Sessions :
        call[p].op = "transfer" =>
            LET c == call[p]
                record == [sender |-> c.sender, recipient |-> c.recipient,
                           amount |-> c.amount, note |-> c.note]
            IN  IF c.sender \notin students \/ c.recipient \notin students
                THEN HasRaised(p, "UnregisteredParticipant")
                ELSE IF get_balance(c.chain0, c.sender) < c.amount
                THEN HasRaised(p, "InsufficientBalance")
                ELSE AppendsOne(p, record)

C4_Witness ==
    \E p \in Sessions :
        /\ call[p].op = "transfer"
        /\ pc[p] = "returned"
        /\ call[p].sender # call[p].recipient
        /\ call[p].amount > 0

C4_WitnessUnregistered ==
    \E p \in Sessions :
        call[p].op = "transfer" /\ pc[p] = "raised" /\ result[p] = "UnregisteredParticipant"

C4_WitnessInsufficient ==
    \E p \in Sessions :
        /\ call[p].op = "transfer" /\ pc[p] = "raised" /\ result[p] = "InsufficientBalance"
        /\ get_balance(chain, call[p].sender) > 0

\* C5: award_coin raises UnregisteredParticipant when the student is not
\* registered, and else appends exactly one block whose only record is
\* TEACHER -> student, amount 1, note reason.
C5_AwardContract ==
    \A p \in Sessions :
        call[p].op = "award_coin" =>
            LET c == call[p]
                record == [sender |-> "TEACHER", recipient |-> c.recipient,
                           amount |-> 1, note |-> c.note]
            IN  IF c.recipient \notin students
                THEN HasRaised(p, "UnregisteredParticipant")
                ELSE AppendsOne(p, record)

C5_Witness ==
    \E p \in Sessions :
        /\ call[p].op = "award_coin"
        /\ pc[p] = "returned"
        /\ Len(chain) >= 3

C5_WitnessUnregistered ==
    \E p \in Sessions :
        call[p].op = "award_coin" /\ pc[p] = "raised" /\ result[p] = "UnregisteredParticipant"

\* C6: transfer with an amount that is zero or negative, between registered
\* students, raises InvalidAmount and appends no block.
C6_InvalidAmountRejected ==
    \A p \in Sessions :
        (/\ call[p].op = "transfer"
         /\ call[p].amount <= 0
         /\ call[p].sender \in students /\ call[p].recipient \in students)
            => HasRaised(p, "InvalidAmount")

\* C7: the balances of all_balances add up to the amounts awarded.
RECURSIVE SumOver(_, _)
SumOver(keys, val) ==
    IF keys = <<>> THEN 0
    ELSE SumOver(SubSeq(keys, 1, Len(keys) - 1), val) + val[keys[Len(keys)]]

SumOfBalances(d) == SumOver(d.keys, d.val)

SumOfOthers(d) == SumOfBalances(d) - DictGet(d, TEACHER, 0)

\* the claim as written: every award is of amount 1
C7_SumEqualsAwarded == SumOfBalances(all_balances(chain)) = awards

\* C7, amended: the balances of all_balances, TEACHER's among them, add up
\* to 0; while TEACHER is not a registered student the balances of the
\* others add up to the amounts awarded.
C7_SupplyConserved ==
    LET d == all_balances(chain)
    IN  /\ SumOfBalances(d) = 0
        /\ TEACHER \notin students => SumOfOthers(d) = awards

C7_Witness ==
    /\ awards >= 1
    /\ TEACHER \notin students
    /\ \E i \in 2..Len(chain) :
          /\ chain[i].transactions[1].sender \in students
          /\ chain[i].transactions[1].recipient # chain[i].transactions[1].sender
          /\ chain[i].transactions[1].amount > 0
    /\ \E p \in Sessions : pc[p] = "raised"

\* C8: every step leaves the chain a prefix of the next chain: no block is
\* removed and no field of a block already in the chain changes.
C8_AppendOnly == [][IsPrefix(chain, chain')]_vars

C8_Witness ==
    /\ Len(chain) >= 3
    /\ \E p \in Sessions : pc[p] = "returned"

\* C9: the block proof_of_work returns, which add_block appends, has a hash
\* whose first `difficulty` characters are all '0'; with difficulty 0 the
\* candidate keeps the nonce 0 and the hash it was constructed with.
LeadingZeros(s, d) == Len(s) >= d /\ \A k \in 1..d : s[k] = 0

C9_ProofOfWork ==
    /\ \A i \in 2..Len(chain) :
          /\ LeadingZeros(chain[i].hash, difficulty)
          /\ difficulty = 0 => chain[i].nonce = 0
    /\ \A p \in Sessions :
          (pc[p] = "mining" /\ difficulty = 0)
              => /\ new_block[p].nonce = 0
                 /\ new_block[p].hash
                        = compute_hash(new_block[p].index, new_block[p].transactions,
                                       new_block[p].previous_hash, 0,
                                       new_block[p].timestamp)

C9_Witness ==
    /\ difficulty >= 1
    /\ \E i \in 2..Len(chain) : chain[i].nonce >= 1 /\ LeadingZeros(chain[i].hash, difficulty)

C9_WitnessZero ==
    /\ difficulty = 0
    /\ Len(chain) >= 2

\* C10: construction leaves exactly one block, index 0, no records,
\* previous_hash "0", nonce 0; that block stays at position 0 for good.
IsGenesis(b) ==
    /\ b.index = 0
    /\ b.transactions = <<>>
    /\ b.previous_hash = <<0>>
    /\ b.nonce = 0

C10_Genesis ==
    /\ Len(chain) = 1
    /\ IsGenesis(chain[1])
    /\ [][chain'[1] = chain[1] /\ IsGenesis(chain'[1])]_vars

C10_Witness ==
    /\ Len(chain) >= 3
    /\ IsGenesis(chain[1])
    /\ difficulty >= 1

(* C11 *)
\* the successful award_coin calls made to s
AwardsTo(s) ==
    Cardinality({i \in 1..Len(log) :
                    log[i].op = "award_coin" /\ log[i].recipient = s})

\* some successful transfer had s as its sender or its recipient
InTransfer(s) ==
    \E i \in 1..Len(log) :
        log[i].op = "transfer" /\ (log[i].sender = s \/ log[i].recipient = s)

\* C11 as stated: a student awarded k coins and part of no transfer has balance
\* k, and after n awards in total the balance of "TEACHER" is -n.
C11_AwardChangesBalances ==
    /\ \A s \in students : ~InTransfer(s) => balance(chain, s) = AwardsTo(s)
    /\ balance(chain, TEACHER) = 0 - awards

\* C11: a student other than "TEACHER" who was awarded k coins and took part in
\* no transfer has balance k; if "TEACHER" took part in no transfer then after
\* n awards, m of them to "TEACHER" itself, its balance is -(n - m), which is
\* -n as long as "TEACHER" is not a registered student.
C11_AwardBalances ==
    /\ \A s \in Names \ {TEACHER} :
          ~InTransfer(s) => balance(chain, s) = AwardsTo(s)
    /\ ~InTransfer(TEACHER)
          => balance(chain, TEACHER) = 0 - (awards - AwardsTo(TEACHER))
    /\ TEACHER \notin students => balance(chain, TEACHER) = 0 - awards

C11_Witness ==
    /\ TEACHER \notin students
    /\ awards >= 2
    /\ \E s \in students : AwardsTo(s) >= 2 /\ ~InTransfer(s)

(* C12 *)
\* where key k stands in a sequence of distinct keys
Position(keys, k) == CHOOSE i \in 1..Len(keys) : keys[i] = k

\* C12: leaderboard holds exactly the pairs of all_balances, in descending
\* order of balance, and keys of equal balance stand in the order in which
\* all_balances first met them.
C12_Leaderboard ==
    LET d == all_balances(chain)
        lb == leaderboard(chain)
        n == Len(lb.keys)
    IN  /\ lb.val = d.val
        /\ n = Len(d.keys)
        /\ {lb.keys[i] : i \in 1..n} = {d.keys[i] : i \in 1..n}
        /\ \A i, j \in 1..n :
              i < j =>
                /\ lb.val[lb.keys[i]] >= lb.val[lb.keys[j]]
                /\ lb.val[lb.keys[i]] = lb.val[lb.keys[j]]
                      => Position(d.keys, lb.keys[i]) < Position(d.keys, lb.keys[j])

\* two keys tie, and the first key met is not the richest
C12_Witness ==
    LET d == all_balances(chain)
        lb == leaderboard(chain)
    IN  /\ lb.keys # d.keys
        /\ \E i, j \in 1..Len(d.keys) :
              i < j /\ d.val[d.keys[i]] = d.val[d.keys[j]]

(* C13 *)
Range(s) == {s[i] : i \in 1..Len(s)}

\* the names that stand as sender or recipient in some record of the chain
NamesInRecords(ch) ==
    UNION {{t.sender, t.recipient} :
              t \in UNION {Range(ch[i].transactions) : i \in 1..Len(ch)}}

\* C13: the keys of all_balances are exactly the names that are sender or
\* recipient of some record, registered or not, each once; a chain of the
\* genesis block alone gives the empty mapping.
C13_KeysAreRecordNames ==
    LET d == all_balances(chain)
    IN  /\ DOMAIN d.val = NamesInRecords(chain)
        /\ Range(d.keys) = NamesInRecords(chain)
        /\ Len(d.keys) = Cardinality(NamesInRecords(chain))
        /\ Len(chain) = 1 => d = EmptyDict

\* an unregistered name is a key, and a registered student is not
C13_Witness ==
    LET d == all_balances(chain)
    IN  /\ Len(chain) >= 2
        /\ \E n \in DOMAIN d.val : n \notin students
        /\ \E s \in students : s \notin DOMAIN d.val

(* C14 *)
\* every block names the hash of the block before it and its own position
WellFormed(ch) ==
    \A i \in 2..Len(ch) :
        ch[i].previous_hash = ch[i - 1].hash /\ ch[i].index = i - 1

\* C14: on a ledger shared by two threads, when add_block runs as one atomic
\* unit (the mutex) every block of the chain names its predecessor's hash and
\* its own position, in every reachable state; without the mutex a state is
\* reachable where a block does neither (C14_Witness).
C14_AtomicKeepsChain == mutex => WellFormed(chain)

\* two interleaved add_block calls built on the same last block
C14_Witness ==
    /\ ~mutex
    /\ Len(chain) >= 3
    /\ chain[3].previous_hash # chain[2].hash
    /\ chain[3].previous_hash = chain[1].hash
    /\ chain[3].index = chain[2].index

\* with the mutex both threads have added a block
C14_WitnessMutex ==
    /\ mutex
    /\ Len(chain) >= 3
    /\ \E p, q \in Threads : p # q /\ pc[p] = "returned" /\ pc[q] = "returned"

(* C15 *)
\* C15: the index stored in a block is its 0-based position in the chain.
C15_IndexIsPosition == \A i \in 1..Len(chain) : chain[i].index = i - 1

C15_Witness ==
    /\ Len(chain) >= 3
    /\ chain[1].index = 0 /\ chain[2].index = 1 /\ chain[3].index = 2
    /\ \E p \in Sessions : pc[p] = "idle"

(* C16 *)
\* every block added to the chain has been mined
AllMined ==
    \A i \in 2..Len(chain) : LeadingZeros(chain[i].hash, difficulty)

\* a step changes the nonce or the hash of a block only while the block is a
\* candidate outside the chain; the block appended is the candidate as the
\* search left it, and it stays as it is in the chain and in the caller's hands
MutatesOnlyCandidates ==
    /\ \A i \in 1..Len(chain) :
          /\ Len(chain') >= i
          /\ chain'[i].nonce = chain[i].nonce
          /\ chain'[i].hash = chain[i].hash
    /\ \A p \in Sessions :
          /\ (pc[p] = "mining" /\ new_block'[p] # new_block[p]) =>
                (chain' = chain /\ pc'[p] = "mining")
          /\ (pc[p] = "mining" /\ pc'[p] = "returned") =>
                /\ Len(chain') = Len(chain) + 1
                /\ chain'[Len(chain')] = new_block[p]
                /\ new_block'[p] = new_block[p]
          /\ (pc[p] = "returned" /\ pc'[p] = "returned") =>
                new_block'[p] = new_block[p]

\* C16: a block is mined strictly before it is appended: every non-genesis
\* block of the chain has a hash starting with `difficulty` zeros, and no step
\* at or after a block's append changes its nonce or its hash.
C16_MinedBeforeAppended == []AllMined /\ [][MutatesOnlyCandidates]_vars

\* a block whose search took several nonces is in the chain, returned
C16_Witness ==
    /\ difficulty >= 1
    /\ \E p \in Sessions :
          /\ pc[p] = "returned"
          /\ new_block[p].nonce >= 1
          /\ last_block(chain) = new_block[p]

(* C17 *)
\* the hash block b would have with nonce n
HashWithNonce(b, n) ==
    compute_hash(b.index, b.transactions, b.previous_hash, n, b.timestamp)

\* some nonce from b's own upward gives a hash with the required prefix
SomeNonceWorks(b) ==
    \E n \in b.nonce..(b.nonce + HashMod) :
        LeadingZeros(HashWithNonce(b, n), difficulty)

\* a search moves to the next nonce and its hash, and what it returns is the
\* first nonce that passes the test; a search no nonce can end does not end
SearchesUpward ==
    \A p \in Sessions :
        /\ (pc[p] = "mining" /\ new_block'[p] # new_block[p]) =>
              /\ new_block'[p].nonce = new_block[p].nonce + 1
              /\ new_block'[p].hash = HashWithNonce(new_block[p], new_block[p].nonce + 1)
        /\ (pc[p] = "idle" /\ pc'[p] = "mining") => new_block'[p].nonce = 0
        /\ (pc[p] = "mining" /\ pc'[p] # "mining") =>
              /\ pc'[p] = "returned"
              /\ LeadingZeros(new_block'[p].hash, difficulty)
              /\ \A n \in 0..(new_block'[p].nonce - 1) :
                    ~LeadingZeros(HashWithNonce(new_block'[p], n), difficulty)
        /\ (pc[p] = "mining" /\ ~SomeNonceWorks(new_block[p])) => pc'[p] = "mining"

\* C17: proof_of_work tries the nonces upward from the candidate's in steps
\* of 1.  If some nonce from there on gives a hash with the prefix, the search
\* ends, and the block returned has the smallest such nonce; if none does,
\* the search never ends.
C17_SearchEndsAtSmallest ==
    /\ [][SearchesUpward]_vars
    /\ \A p \in Sessions :
          (pc[p] = "mining" /\ SomeNonceWorks(new_block[p])) ~> (pc[p] = "returned")

\* a search that passed over failing nonces has returned
C17_Witness ==
    \E p \in Sessions :
        /\ pc[p] = "returned"
        /\ new_block[p].nonce >= 2
        /\ difficulty = HashLen

\* a search that no nonce can end has tried them all and is still running
C17_WitnessNever ==
    \E p \in Sessions :
        /\ pc[p] = "mining"
        /\ ~SomeNonceWorks(new_block[p])
        /\ new_block[p].nonce = MaxNonce

(* C18 *)
\* the award_coin and transfer calls that returned a block
Succeeded(op) == Cardinality({i \in 1..Len(log) : log[i].op = op})

\* C18: the genesis block holds no record and every other block exactly one,
\* and the chain is one block longer than the number of award_coin and
\* transfer calls that succeeded.
C18_OneRecordPerCall ==
    /\ Len(chain[1].transactions) = 0
    /\ \A i \in 2..Len(chain) : Len(chain[i].transactions) = 1
    /\ Len(chain) = 1 + Succeeded("award_coin") + Succeeded("transfer")

\* an award and a transfer succeeded and another call failed
C18_Witness ==
    /\ Succeeded("award_coin") >= 1
    /\ Succeeded("transfer") >= 1
    /\ Len(chain) = 3
    /\ \E p \in Sessions : pc[p] = "raised"

(* C19 *)
\* C19 as stated: no registered student has a negative balance.
C19_StudentsNotNegative ==
    \A s \in students : balance(chain, s) >= 0

\* C19: no registered student other than "TEACHER" has a negative balance;
\* "TEACHER", registered or not, is debited by every award.
C19_OthersNotNegative ==
    \A s \in students \ {TEACHER} : balance(chain, s) >= 0

\* a student has spent the whole balance, and a further transfer was refused
C19_Witness ==
    /\ \E i \in 2..Len(chain) :
          LET t == chain[i].transactions[1]
          IN  /\ t.sender \in students \ {TEACHER}
              /\ t.recipient # t.sender
              /\ t.amount >= 1
              /\ balance(chain, t.sender) = 0
    /\ \E p \in Sessions :
          /\ pc[p] = "raised"
          /\ result[p] = "InsufficientBalance"
          /\ call[p].sender # TEACHER

(* C20 *)
\* a name no handler of the model is ever given
Stranger == "Zoe"

\* C20: every key of all_balances has the value get_balance computes for it,
\* also when some record has it as sender and recipient at once; a name that
\* stands in no record has balance 0.
C20_QueriesAgree ==
    LET d == all_balances(chain)
    IN  /\ \A p \in DOMAIN d.val : d.val[p] = get_balance(chain, p)
        /\ \A p \in (Names \cup {Stranger}) \ DOMAIN d.val :
              get_balance(chain, p) = 0

\* a record has one name as sender and recipient, and a student is in no record
C20_Witness ==
    LET d == all_balances(chain)
    IN  /\ \E i \in 2..Len(chain) :
              LET t == chain[i].transactions[1]
              IN  t.sender = t.recipient /\ t.amount >= 1 /\ t.sender \in DOMAIN d.val
        /\ \E p \in students : p \notin DOMAIN d.val

====
